---------------------------- MODULE Spec2Model ----------------------------
(***************************************************************************)
(* A model of chempy/equilibria.py: the single-reaction coordinate solver  *)
(* (get_rc_interval, solve_equilibrium), the dissolved projection, the     *)
(* forward/backward phase conditions, the sanity check, the three         *)
(* orchestration policies of EqSystem._solve, the post_processor of        *)
(* NumSysLinTanh and the grid solve of EqSystem.solve / EqCalcResult.      *)
(*                                                                         *)
(* Numbers.  Concentrations are numpy float64 in the program.  The model   *)
(* keeps them as exact fractions <<n, d>> with d >= 0; d = 0 encodes the   *)
(* IEEE specials the program can produce: <<1,0>> = inf, <<-1,0>> = -inf,  *)
(* <<0,0>> = nan.  Rounding is not modelled.                               *)
(***************************************************************************)
EXTENDS Integers, Sequences, FiniteSets, TLC

(***************************************************************************)
(* Bounds of the model.                                                    *)
(***************************************************************************)
\* largest initial concentration (in grid units) a caller passes
MaxConc == 2
\* largest absolute stoichiometric coefficient of solve_equilibrium's input
MaxStoich == 2
\* number of species of solve_equilibrium's input
NSpecies == 2
\* largest concentration (in grid units) a solver returns
MaxOut == 1

(***************************************************************************)
(* Float-like arithmetic on fractions.                                     *)
(***************************************************************************)
Abs(n) == IF n < 0 THEN -n ELSE n

Sign(n) == IF n < 0 THEN -1 ELSE IF n > 0 THEN 1 ELSE 0

RECURSIVE Gcd(_, _)
Gcd(a, b) == IF b = 0 THEN a ELSE Gcd(b, a % b)

\* the fraction n/d in lowest terms, d > 0
Frac(n, d) ==
    LET g == Gcd(Abs(n), Abs(d))
        s == IF d < 0 THEN -1 ELSE 1
    IN  << (s * n) \div g, (s * d) \div g >>

R(n) == << n, 1 >>

Zero == << 0, 1 >>

One == << 1, 1 >>

Inf == << 1, 0 >>

NaN == << 0, 0 >>

IsNaN(a) == a[2] = 0 /\ a[1] = 0

IsInf(a) == a[2] = 0 /\ a[1] # 0

IsFinite(a) == a[2] > 0

RNeg(a) == << -a[1], a[2] >>

RAdd(a, b) ==
    IF IsNaN(a) \/ IsNaN(b) THEN NaN
    ELSE IF IsInf(a) /\ IsInf(b) THEN (IF a[1] = b[1] THEN a ELSE NaN)
    ELSE IF IsInf(a) THEN a
    ELSE IF IsInf(b) THEN b
    ELSE Frac(a[1] * b[2] + b[1] * a[2], a[2] * b[2])

RSub(a, b) == RAdd(a, RNeg(b))

RMul(a, b) ==
    IF IsNaN(a) \/ IsNaN(b) THEN NaN
    ELSE IF IsInf(a) \/ IsInf(b)
         THEN (IF a[1] = 0 \/ b[1] = 0 THEN NaN
               ELSE << Sign(a[1]) * Sign(b[1]), 0 >>)
    ELSE Frac(a[1] * b[1], a[2] * b[2])

\* float division: x/0 is inf (nan for 0/0), never an exception
RDiv(a, b) ==
    IF IsNaN(a) \/ IsNaN(b) THEN NaN
    ELSE IF IsInf(b) THEN (IF IsInf(a) THEN NaN ELSE Zero)
    ELSE IF b[1] = 0
         THEN (IF a[1] = 0 THEN NaN ELSE << Sign(a[1]), 0 >>)
    ELSE IF IsInf(a) THEN << Sign(a[1]) * Sign(b[1]), 0 >>
    ELSE Frac(a[1] * b[2], a[2] * b[1])

\* a < b; every comparison with nan is false
RLt(a, b) ==
    IF IsNaN(a) \/ IsNaN(b) THEN FALSE
    ELSE IF IsInf(a) THEN a[1] < 0 /\ ~(IsInf(b) /\ b[1] < 0)
    ELSE IF IsInf(b) THEN b[1] > 0
    ELSE a[1] * b[2] < b[1] * a[2]

RGt(a, b) == RLt(b, a)

RLe(a, b) == ~IsNaN(a) /\ ~IsNaN(b) /\ ~RLt(b, a)

\* conc**nr of numpy: x**0 = 1 for every x, 0**-1 = inf
RECURSIVE RPow(_, _)
RPow(a, k) ==
    IF k = 0 THEN One
    ELSE IF k < 0 THEN RDiv(One, RPow(a, -k))
    ELSE RMul(a, RPow(a, k - 1))

\* the largest / smallest element of a nonempty set of finite fractions
RMax(S) == CHOOSE m \in S : \A y \in S : RLe(y, m)

RMin(S) == CHOOSE m \in S : \A y \in S : RLe(m, y)

Range(f) == { f[i] : i \in DOMAIN f }

(***************************************************************************)
(* The single-reaction coordinate solver.                                  *)
(***************************************************************************)
\* mask, = np.nonzero(stoich): the indices with a nonzero coefficient
NonzeroMask(st) == { i \in DOMAIN st : st[i] # 0 }

\* limits = c0/stoich, elementwise, on the given indices
Limits(st, c, idx) == [ i \in idx |-> RDiv(R(c[i]), R(st[i])) ]

NegLimits(lim) == { lim[i] : i \in { j \in DOMAIN lim : RLt(lim[j], Zero) } }

PosLimits(lim) == { lim[i] : i \in { j \in DOMAIN lim : RGt(lim[j], Zero) } }

\* UpperOf with np.min in place of np.max
UpperOfMin(lim) ==
    IF NegLimits(lim) # {} THEN [ val |-> RNeg(RMin(NegLimits(lim))), lit |-> FALSE ]
    ELSE [ val |-> Zero, lit |-> TRUE ]

\* upper: -np.max(limits[limits < 0]), or the literal 0.  lit records that
\* the value is the int literal, which is what "upper is 0" tests.
UpperOf(lim) ==
    IF NegLimits(lim) # {} THEN [ val |-> RNeg(RMax(NegLimits(lim))), lit |-> FALSE ]
    ELSE [ val |-> Zero, lit |-> TRUE ]

LowerOf(lim) ==
    IF PosLimits(lim) # {} THEN [ val |-> RNeg(RMin(PosLimits(lim))), lit |-> FALSE ]
    ELSE [ val |-> Zero, lit |-> TRUE ]

\* get_rc_interval raising when either end is the literal 0 ("or" for "and")
get_rc_interval_or(st, c, idx) ==
    LET lim == Limits(st, c, idx)
        up  == UpperOf(lim)
        lo  == LowerOf(lim)
    IN  IF lo.lit \/ up.lit
        THEN [ err |-> "0-interval", lower |-> Zero, upper |-> Zero ]
        ELSE [ err |-> "none", lower |-> lo.val, upper |-> up.val ]

\* get_rc_interval(stoich, c0) on the masked arrays: the error or (lower, upper)
get_rc_interval(st, c, idx) ==
    LET lim == Limits(st, c, idx)
        up  == UpperOf(lim)
        lo  == LowerOf(lim)
    IN  IF lo.lit /\ up.lit
        THEN [ err |-> "0-interval", lower |-> Zero, upper |-> Zero ]
        ELSE [ err |-> "none", lower |-> lo.val, upper |-> up.val ]

\* what brentq may return on [lower, upper]: a point of the bracket
BrentqRoots(lo, up) == { lo, up, RDiv(RAdd(lo, up), R(2)) }

\* c0 + rc*stoich
Advance(c, rc, st) == [ i \in DOMAIN c |-> RAdd(R(c[i]), RMul(rc, R(st[i]))) ]

(***************************************************************************)
(* Equilibrium systems.  A substance has a composition (component id ->    *)
(* amount, id 0 is the charge) and is a solid or not; a reaction has its   *)
(* net stoichiometry, its equilibrium constant K and, when it involves a   *)
(* solid, that solid's index (0 when it has no precipitate).               *)
(***************************************************************************)
\* NaCl(s) <-> Na+ + Cl-: the solid is a reactant, coefficient -1
SysSalt ==
    [ comp  |-> << (0 :> 1 @@ 1 :> 1), (0 :> -1 @@ 2 :> 1), (1 :> 1 @@ 2 :> 1) >>,
      solid |-> << FALSE, FALSE, TRUE >>,
      rxns  |-> << [ net |-> << 1, 1, -1 >>, K |-> << 5, 3 >>, precip |-> 3 ] >> ]

\* Na+ + Cl- <-> NaCl(s): the solid is a product, coefficient +1
SysSaltRev ==
    [ comp  |-> << (0 :> 1 @@ 1 :> 1), (0 :> -1 @@ 2 :> 1), (1 :> 1 @@ 2 :> 1) >>,
      solid |-> << FALSE, FALSE, TRUE >>,
      rxns  |-> << [ net |-> << -1, -1, 1 >>, K |-> << 3, 5 >>, precip |-> 3 ] >> ]

\* two solids of one element: 2 P(s) <-> 2 A and Q(s) <-> 2 A
SysTwoSolids ==
    [ comp  |-> << (1 :> 1), (1 :> 1), (1 :> 2) >>,
      solid |-> << FALSE, TRUE, TRUE >>,
      rxns  |-> << [ net |-> << 2, -2, 0 >>, K |-> << 1, 1 >>, precip |-> 2 ],
                   [ net |-> << 2, 0, -1 >>, K |-> << 3, 2 >>, precip |-> 3 ] >> ]

\* a dissolved reaction 2 A <-> A2 and a precipitation A2 <-> A2(s)
SysDimer ==
    [ comp  |-> << (1 :> 1), (1 :> 2), (1 :> 2) >>,
      solid |-> << FALSE, FALSE, TRUE >>,
      rxns  |-> << [ net |-> << -2, 1, 0 >>, K |-> << 1, 1 >>, precip |-> 0 ],
                   [ net |-> << 0, -1, 1 >>, K |-> << 1, 1 >>, precip |-> 3 ] >> ]

\* A + Cat(s) <-> B + Cat(s): a solid on both sides, net coefficient 0
SysCatalyst ==
    [ comp  |-> << (1 :> 1), (1 :> 1), (2 :> 1) >>,
      solid |-> << FALSE, FALSE, TRUE >>,
      rxns  |-> << [ net |-> << -1, 1, 0 >>, K |-> << 1, 1 >>, precip |-> 3 ] >> ]

Systems == << SysSalt, SysSaltRev, SysTwoSolids, SysDimer, SysCatalyst >>

\* ReactionSystem.ns
Ns(sys) == Len(sys.comp)

\* ReactionSystem.nr
Nr(sys) == Len(sys.rxns)

\* Reaction.has_precipitates(substances)
has_precipitates(r) == r.precip # 0

\* Reaction.precipitate_stoich(substances)[1:3]: the solid's net coefficient and index
precipitate_stoich(r) == [ coeff |-> r.net[r.precip], idx |-> r.precip ]

\* Reaction.non_precipitate_stoich(substances): the net stoichiometry without the solids
non_precipitate_stoich(sys, r) ==
    [ i \in 1..Ns(sys) |-> IF sys.solid[i] THEN 0 ELSE r.net[i] ]

\* equilibrium_quotient(concs, stoich): tot = 1; tot *= conc**nr, in order
RECURSIVE QuotientUpTo(_, _, _)
QuotientUpTo(concs, st, n) ==
    IF n = 0 THEN One
    ELSE RMul(QuotientUpTo(concs, st, n - 1), RPow(concs[n], st[n]))

equilibrium_quotient(concs, st) == QuotientUpTo(concs, st, Len(st))

\* Equilibrium.Q(substances, concs): the quotient of the dissolved species
RxnQ(sys, r, concs) == equilibrium_quotient(concs, non_precipitate_stoich(sys, r))

\* EqSystem.phase_transfer_reaction_idxs()
phase_transfer_reaction_idxs(sys) ==
    { ri \in 1..Nr(sys) : has_precipitates(sys.rxns[ri]) }

(***************************************************************************)
(* EqSystem.dissolved.                                                     *)
(***************************************************************************)
\* new_concs -= new_concs[s_idx]/s_stoich * net_stoich, for one reaction
DissolveRxn(r, v) ==
    IF has_precipitates(r)
    THEN LET ps == precipitate_stoich(r)
             f  == RDiv(v[ps.idx], R(ps.coeff))
         IN  [ i \in DOMAIN v |-> RSub(v[i], RMul(f, R(r.net[i]))) ]
    ELSE v

\* the loop over self.rxns, the first n reactions done
RECURSIVE DissolveUpTo(_, _, _)
DissolveUpTo(sys, v, n) ==
    IF n = 0 THEN v ELSE DissolveRxn(sys.rxns[n], DissolveUpTo(sys, v, n - 1))

dissolved(sys, v) == DissolveUpTo(sys, v, Nr(sys))

(***************************************************************************)
(* The phase conditions.  The relative tolerance of the forward condition  *)
(* is rtol = 1/RtolDen and the Log strategy's floor is SmallLog; the       *)
(* program's values (1e-14, exp(-80)) are scaled to the model's grid of    *)
(* concentrations so that the grid has points inside the tolerance band.   *)
(***************************************************************************)
RtolDen == 4

SmallLog == 1

\* 1 + rtol
OnePlusRtol == Frac(RtolDen + 1, RtolDen)

\* fw_cond(x, p) with the tolerance dropped
fw_cond_notol(sys, ri, x) ==
    LET r == sys.rxns[ri]
        s == precipitate_stoich(r).coeff
        q == RxnQ(sys, r, dissolved(sys, x))
    IN  IF s > 0 THEN [ err |-> "none", val |-> RLt(q, r.K) ]
        ELSE IF s < 0 THEN [ err |-> "none", val |-> RGt(q, r.K) ]
        ELSE [ err |-> "NotImplementedError", val |-> FALSE ]

\* fw_cond(x, p) of _fw_cond_factory(ri): a boolean, or the error for s = 0
fw_cond(sys, ri, x) ==
    LET r == sys.rxns[ri]
        s == precipitate_stoich(r).coeff
        q == RxnQ(sys, r, dissolved(sys, x))
    IN  IF s > 0 THEN [ err |-> "none", val |-> RLt(RMul(q, OnePlusRtol), r.K) ]
        ELSE IF s < 0 THEN [ err |-> "none", val |-> RGt(q, RMul(r.K, OnePlusRtol)) ]
        ELSE [ err |-> "NotImplementedError", val |-> FALSE ]

\* bw_cond with the threshold dropped (0 for small)
bw_cond_zero(sys, ri, small, x) ==
    ~RLt(x[precipitate_stoich(sys.rxns[ri]).idx], Zero)

\* bw_cond(x, p) of _bw_cond_factory(ri, small)
bw_cond(sys, ri, small, x) ==
    ~RLt(x[precipitate_stoich(sys.rxns[ri]).idx], small)

(***************************************************************************)
(* Conservation bounds and the sanity check.  The relative tolerance of    *)
(* the sanity check is 1/SaneTolDen (1e-12 in the program, scaled like     *)
(* rtol).                                                                  *)
(***************************************************************************)
SaneTolDen == 1

OnePlusSaneTol == Frac(SaneTolDen + 1, SaneTolDen)

\* the component ids of a substance other than the charge (id 0)
Components(sys, i) == DOMAIN sys.comp[i] \ { 0 }

AllComponents(sys) == UNION { Components(sys, i) : i \in 1..Ns(sys) }

\* sum over the first n substances of coeff*conc for component k
RECURSIVE CompositionSum(_, _, _, _)
CompositionSum(sys, v, k, n) ==
    IF n = 0 THEN Zero
    ELSE RAdd(CompositionSum(sys, v, k, n - 1),
              IF k \in DOMAIN sys.comp[n] THEN RMul(R(sys.comp[n][k]), v[n]) ELSE Zero)

\* composition_conc[comp_nr] of upper_conc_bounds
composition_conc(sys, v, k) == CompositionSum(sys, v, k, Ns(sys))

\* upper_conc_bounds with max for min
upper_conc_bounds_max(sys, init) ==
    [ i \in 1..Ns(sys) |->
        RMax({ RDiv(composition_conc(sys, init, k), R(sys.comp[i][k])) :
               k \in Components(sys, i) }) ]

\* upper_conc_bounds(init_concs): per substance, the least total/coeff
upper_conc_bounds(sys, init) ==
    [ i \in 1..Ns(sys) |->
        RMin({ RDiv(composition_conc(sys, init, k), R(sys.comp[i][k])) :
               k \in Components(sys, i) }) ]

\* _result_is_sane without the negativity test
result_is_sane_noneg(sys, init, v) ==
    LET ub == upper_conc_bounds(sys, init)
    IN  ~(\E i \in 1..Ns(sys) : RGt(v[i], RMul(ub[i], OnePlusSaneTol)))

\* _result_is_sane(init_concs, x)
result_is_sane(sys, init, v) ==
    LET ub       == upper_conc_bounds(sys, init)
        neg_conc == \E i \in 1..Ns(sys) : RLt(v[i], Zero)
        too_much == \E i \in 1..Ns(sys) : RGt(v[i], RMul(ub[i], OnePlusSaneTol))
    IN  ~(neg_conc \/ too_much)

\* the f_preserv residuals of NumSysLin.f / NumSysLog.f vanish: B.y = B.init_concs
Conserved(sys, v, init) ==
    \A k \in AllComponents(sys) :
        composition_conc(sys, v, k) = composition_conc(sys, init, k)

(***************************************************************************)
(* The strategies and the construction of the conditional systems.         *)
(***************************************************************************)
\* _NumSys.small (0), NumSysLog.small
Small(NS) == IF NS = "Log" THEN R(SmallLog) ELSE Zero

\* the defaults of EqSystem._solve
DefaultNumSys == << "Log", "Lin" >>

DefaultNeqsys == "chained_conditional"

\* an argument that was not given is << >> (NumSys) or "unset" (neqsys); the
\* precipitates argument is [given, val]
NumSysOf(kw) == IF kw.NumSys = << >> THEN DefaultNumSys ELSE kw.NumSys

NeqsysOf(kw) == IF kw.neqsys = "unset" THEN DefaultNeqsys ELSE kw.neqsys

\* the threshold of the stage being solved, whatever the policy
BwSmallStage(policy, NumSys, k) == Small(NumSys[k])

\* the threshold of every stage taken from the first strategy
BwSmallFirst(policy, NumSys, k) == Small(NumSys[1])

\* the threshold handed to _bw_cond_factory: NS.small per stage in
\* get_neqsys_chained_conditional, NumSys[0].small in get_neqsys_conditional_chained
BwSmall(policy, NumSys, k) ==
    IF policy = "chained_conditional" THEN Small(NumSys[k]) ELSE Small(NumSys[1])

\* static conditions that take the flags from the conditions on x0
StaticPrecipitatesFw(sys, kw, x0) ==
    [ ri \in phase_transfer_reaction_idxs(sys) |-> fw_cond(sys, ri, x0).val ]

\* get_neqsys_static_conditions: the given flags, or (False,)*n
StaticPrecipitates(sys, kw, x0) ==
    IF ~kw.precipitates.given
    THEN [ ri \in phase_transfer_reaction_idxs(sys) |-> FALSE ]
    ELSE kw.precipitates.val

\* ConditionalNeqSys.get_conds: bw for a flag that was true, fw for one that was false
get_conds(sys, v, prev, small) ==
    [ ri \in phase_transfer_reaction_idxs(sys) |->
        IF prev[ri] THEN bw_cond(sys, ri, small, v) ELSE fw_cond(sys, ri, v).val ]

\* the error of get_conds: a forward condition that raised
get_conds_err(sys, v, prev) ==
    IF \E ri \in phase_transfer_reaction_idxs(sys) :
          ~prev[ri] /\ fw_cond(sys, ri, v).err # "none"
    THEN "NotImplementedError" ELSE "none"

AllAbsent(sys) == [ ri \in phase_transfer_reaction_idxs(sys) |-> FALSE ]

\* what a stage's post_processor can give: exp(y) >= 0 for Log, any sign for Lin
XVals(NS) == IF NS = "Log" THEN 0..MaxOut ELSE (-1)..MaxOut

XGrid(sys, NS) == { [ i \in 1..Ns(sys) |-> R(f[i]) ] : f \in [ 1..Ns(sys) -> XVals(NS) ] }

\* what the solver may return for a stage: on success a root of the residuals
\* (so the balances hold), on failure its last iterate
SolverOutputs(sys, NS, init) ==
    { [ x |-> v, success |-> TRUE ] : v \in { w \in XGrid(sys, NS) : Conserved(sys, w, init) } }
    \cup { [ x |-> v, success |-> FALSE ] : v \in XGrid(sys, NS) }

(***************************************************************************)
(* Inputs.                                                                 *)
(***************************************************************************)
StoichInputs == [ 1..NSpecies -> (-MaxStoich)..MaxStoich ]

ConcInputs == [ 1..NSpecies -> 0..MaxConc ]

SysIds == 1..Len(Systems)

\* initial concentrations of an equilibrium system (each has three substances)
InitConcs(sys) ==
    { << One, One, Zero >>, << One, Zero, Zero >>, << One, Zero, One >>,
      << R(MaxConc), R(MaxConc), Zero >> }

\* concentration vectors handed to dissolved
DissolvedInputs(sys) == { [ i \in 1..Ns(sys) |-> R(f[i]) ] : f \in [ 1..Ns(sys) -> 0..MaxConc ] }

NumSysArgs == { << >>, << "Lin", "Log" >> }

NoPrecipitates == [ given |-> FALSE, val |-> << >> ]

PrecipitatesArgs(sys) ==
    { NoPrecipitates }
    \cup { [ given |-> TRUE, val |-> f ] : f \in [ phase_transfer_reaction_idxs(sys) -> BOOLEAN ] }

NoKwargs == [ NumSys |-> << >>, neqsys |-> "unset", precipitates |-> NoPrecipitates ]

(***************************************************************************)
(* NumSysLinTanh.  Solver-space values are whole numbers here; tanh is      *)
(* (e^2y - 1)/(e^2y + 1) with e^2 rounded to 7, and it is exactly 1 or -1   *)
(* from |y| = TanhSat on, as the float64 tanh is for large arguments.       *)
(***************************************************************************)
\* largest |y| the solver hands to post_processor
MaxY == 4

\* the |y| from which tanh is 1 in floating point
TanhSat == 3

\* numpy.tanh
Tanh(y) ==
    IF Abs(y) >= TanhSat THEN R(Sign(y))
    ELSE Frac(Sign(y) * (7^Abs(y) - 1), 7^Abs(y) + 1)

\* a squashing into [0, ymax]: ymax*(1 + tanh(y))/2
post_processor_unit(sys, init, y) ==
    LET ymax == upper_conc_bounds(sys, init)
    IN  [ i \in 1..Ns(sys) |-> RDiv(RMul(ymax[i], RAdd(One, Tanh(y[i]))), R(2)) ]

\* NumSysLinTanh.post_processor(x, params)[0]: ymax*(4 + 5*tanh(x))/8
post_processor(sys, init, y) ==
    LET ymax == upper_conc_bounds(sys, init)
    IN  [ i \in 1..Ns(sys) |->
            RDiv(RMul(ymax[i], RAdd(R(4), RMul(R(5), Tanh(y[i])))), R(8)) ]

\* the solver-space vectors
YVecs(sys) == [ 1..Ns(sys) -> (-MaxY)..MaxY ]

(***************************************************************************)
(* The grid solve: EqSystem.solve and EqCalcResult.  Grid indices are      *)
(* tuples with one entry per varied axis, counted from 1 (from 0 in the    *)
(* program).                                                               *)
(***************************************************************************)
\* the varied arguments: a sequence of axes, each a substance and its values
VariedArgs ==
    { << [ subst |-> 1, vals |-> << One, R(MaxConc) >> ],
         [ subst |-> 2, vals |-> << Zero, One >> ] >>,
      << [ subst |-> 2, vals |-> << Zero, One, R(MaxConc) >> ] >> }

\* the init_concs given to the grid solve
GridBase == << One, One, Zero >>

\* all_inits.shape[:-1]
Shape(v) == [ a \in DOMAIN v |-> Len(v[a].vals) ]

\* the index tuples i, i+1, .., n prepended to each tuple of rest, in that order
RECURSIVE ProductFrom(_, _, _)
ProductFrom(i, n, rest) ==
    IF i > n THEN << >>
    ELSE [ k \in 1..Len(rest) |-> << i >> \o rest[k] ] \o ProductFrom(i + 1, n, rest)

\* each tuple of rest followed by i, i+1, .., n, in that order
RECURSIVE ProductBack(_, _, _)
ProductBack(i, n, rest) ==
    IF i > n THEN << >>
    ELSE [ k \in 1..Len(rest) |-> rest[k] \o << i >> ] \o ProductBack(i + 1, n, rest)

\* the product with the first axis running fastest
RECURSIVE ProductFirstFastest(_)
ProductFirstFastest(shape) ==
    IF shape = << >> THEN << << >> >>
    ELSE ProductBack(1, shape[Len(shape)],
                     ProductFirstFastest(SubSeq(shape, 1, Len(shape) - 1)))

\* itertools.product over the ranges of the shape: the last axis runs fastest
RECURSIVE Product(_)
Product(shape) ==
    IF shape = << >> THEN << << >> >>
    ELSE ProductFrom(1, Head(shape), Product(Tail(shape)))

\* per_substance_varied(init_concs, varied)[0][index]
per_substance_varied(init, v, index) ==
    [ i \in DOMAIN init |->
        IF \E a \in DOMAIN v : v[a].subst = i
        THEN LET a == CHOOSE b \in DOMAIN v : v[b].subst = i IN v[a].vals[index[a]]
        ELSE init[i] ]

\* the keyword arguments that reach EqCalcResult.solve, and from there _solve:
\* EqSystem.solve calls results.solve() without them
ForwardedKwargs(e, kw) == IF e = "EqSystem.solve" THEN NoKwargs ELSE kw

\* what the solver of the last stage hands back at a grid point: the initial
\* vector or a vector with all entries equal, converged or not
PointOutputs(sys, NS, init) ==
    { o \in [ x : { init } \cup { [ i \in 1..Ns(sys) |-> R(v) ] : v \in XVals(NS) },
              success : BOOLEAN ] :
        o.success => Conserved(sys, o.x, init) }

\* the diagnostics the solver reports: success always, nfev or not
Diagnostics(success) ==
    { [ k \in { "success" } |-> success ],
      [ k \in { "success", "nfev" } |-> IF k = "success" THEN success ELSE 1 ] }

\* the warnings of _solve and _result_is_sane
WarningsOf(sys, init, o) ==
    (IF ~o.success THEN { "Root-finding indicated as failed by solver." } ELSE {})
    \cup (IF \E i \in 1..Ns(sys) : RLt(o.x[i], Zero) THEN { "Negative concentration" } ELSE {})
    \cup (IF \E i \in 1..Ns(sys) :
               RGt(o.x[i], RMul(upper_conc_bounds(sys, init)[i], OnePlusSaneTol))
          THEN { "Too much of at least one component" } ELSE {})

\* _solve raising when the solver reports a failure
SolveOutcomesRaising(sys, init, kw) ==
    IF /\ NeqsysOf(kw) # "static_conditions"
       /\ get_conds_err(sys, init, AllAbsent(sys)) # "none"
    THEN { [ err |-> get_conds_err(sys, init, AllAbsent(sys)) ] }
    ELSE UNION { IF o.success
                 THEN { [ err |-> "none", x |-> o.x, nfo |-> d,
                          sane |-> result_is_sane(sys, init, o.x),
                          warned |-> WarningsOf(sys, init, o) ] :
                        d \in Diagnostics(o.success) }
                 ELSE { [ err |-> "SolverNonConvergence" ] } :
                 o \in PointOutputs(sys, NumSysOf(kw)[Len(NumSysOf(kw))], init) }

\* _solve(init, **kw) as one call: it raises what a forward condition raises on
\* x0, or returns x, the diagnostics and the sane flag
SolveOutcomes(sys, init, kw) ==
    IF /\ NeqsysOf(kw) # "static_conditions"
       /\ get_conds_err(sys, init, AllAbsent(sys)) # "none"
    THEN { [ err |-> get_conds_err(sys, init, AllAbsent(sys)) ] }
    ELSE UNION { { [ err |-> "none", x |-> o.x, nfo |-> d,
                     sane |-> result_is_sane(sys, init, o.x),
                     warned |-> WarningsOf(sys, init, o) ] :
                   d \in Diagnostics(o.success) } :
                 o \in PointOutputs(sys, NumSysOf(kw)[Len(NumSysOf(kw))], init) }

\* the systems and keyword arguments of the grid solves
GridSysIds == { id \in SysIds : Systems[id] \in { SysSalt, SysCatalyst } }

GridKwargs ==
    { NoKwargs,
      [ NumSys |-> << "Lin", "Log" >>, neqsys |-> "static_conditions",
        precipitates |-> NoPrecipitates ] }

VARIABLES
    op,          \* the operation in progress, "idle" between calls
    pc,          \* the position inside it
    c0,          \* solve_equilibrium: initial concentrations
    stoich,      \* solve_equilibrium: stoichiometric coefficients
    interval,    \* solve_equilibrium: what get_rc_interval gave
    rc,          \* solve_equilibrium: the reaction coordinate brentq returned
    eqsys,       \* the EqSystem the method is called on (index in Systems, 0: none)
    concs,       \* dissolved: the caller's array
    concs_in,    \* dissolved: the caller's array as it was at the call
    new_concs,   \* dissolved: the array new_concs names, when it is not the caller's
    new_ref,     \* dissolved: the array new_concs names: "own" or "caller"
    rxn_i,       \* dissolved: the number of reactions the loop has done
    init_concs,  \* _solve: the initial concentrations
    kwargs,      \* _solve: the keyword arguments given
    stage,       \* _solve: the index in NumSys of the stage being solved
    conds,       \* _solve: the phase combination in force
    x,           \* _solve: the current concentrations (x0, then each solution)
    success,     \* _solve: the success flag of the last solve
    small_used,  \* _solve: the threshold of the backward conditions last evaluated
    ns_used,     \* _solve: the strategy of the last solve
    changed,     \* _solve: whether the phase combination changed after a solve
    cond_ri,     \* fw_cond/bw_cond: the reaction the callbacks were built for
    cond_small,  \* bw_cond: the small it was built with
    cond_x,      \* fw_cond/bw_cond: the vector they are called on
    entry,       \* grid solve: the method the caller called
    solve_kwargs,\* grid solve: the keyword arguments the caller gave
    point_kwargs,\* grid solve: the keyword arguments _solve got at the last point
    all_inits,   \* EqCalcResult.all_inits: grid index -> initial concentrations
    conc,        \* EqCalcResult.conc: grid index -> concentrations (<< >>: not written)
    sane,        \* EqCalcResult.sane: grid index -> flag
    succ,        \* EqCalcResult.success: grid index -> flag
    nfev,        \* EqCalcResult.nfev: grid index -> count
    warnings,    \* grid solve: grid index -> the warnings _solve emitted there
    visits,      \* grid solve: the grid indices solved so far, in order
    varied,      \* grid solve: the varied axes the caller gave
    nfo,         \* grid solve: the diagnostics _solve returned at the last point
    yvec,        \* post_processor: the solver-space vector
    ret,         \* the returned value of the operation
    raised       \* the error raised to the caller, "none" if none

seVars == << c0, stoich, interval, rc >>

disVars == << concs, concs_in, new_concs, new_ref, rxn_i >>

solveVars == << init_concs, kwargs, stage, conds, x, success, small_used, ns_used, changed >>

condVars == << cond_ri, cond_small, cond_x >>

gridVars == << entry, solve_kwargs, point_kwargs, all_inits, conc, sane, succ, nfev,
              warnings, visits, varied, nfo >>

tanhVars == << yvec >>

vars == << op, pc, eqsys, seVars, disVars, solveVars, condVars, gridVars, tanhVars,
           ret, raised >>

NoInterval == [ err |-> "none", lower |-> Zero, upper |-> Zero ]

SeIdle ==
    /\ c0' = << >>
    /\ stoich' = << >>
    /\ interval' = NoInterval
    /\ rc' = Zero

DisIdle ==
    /\ concs' = << >>
    /\ concs_in' = << >>
    /\ new_concs' = << >>
    /\ new_ref' = "own"
    /\ rxn_i' = 0

SolveIdle ==
    /\ init_concs' = << >>
    /\ kwargs' = NoKwargs
    /\ stage' = 0
    /\ conds' = << >>
    /\ x' = << >>
    /\ success' = FALSE
    /\ small_used' = << >>
    /\ ns_used' = "none"
    /\ changed' = FALSE

CondIdle ==
    /\ cond_ri' = 0
    /\ cond_small' = Zero
    /\ cond_x' = << >>

GridIdle ==
    /\ entry' = "none"
    /\ solve_kwargs' = NoKwargs
    /\ point_kwargs' = NoKwargs
    /\ all_inits' = << >>
    /\ conc' = << >>
    /\ sane' = << >>
    /\ succ' = << >>
    /\ nfev' = << >>
    /\ warnings' = << >>
    /\ visits' = << >>
    /\ varied' = << >>
    /\ nfo' = << >>

TanhIdle == yvec' = << >>

Init ==
    /\ op = "idle"
    /\ pc = "idle"
    /\ eqsys = 0
    /\ c0 = << >>
    /\ stoich = << >>
    /\ interval = NoInterval
    /\ rc = Zero
    /\ concs = << >>
    /\ concs_in = << >>
    /\ new_concs = << >>
    /\ new_ref = "own"
    /\ rxn_i = 0
    /\ init_concs = << >>
    /\ kwargs = NoKwargs
    /\ stage = 0
    /\ conds = << >>
    /\ x = << >>
    /\ success = FALSE
    /\ small_used = << >>
    /\ ns_used = "none"
    /\ changed = FALSE
    /\ cond_ri = 0
    /\ cond_small = Zero
    /\ cond_x = << >>
    /\ entry = "none"
    /\ solve_kwargs = NoKwargs
    /\ point_kwargs = NoKwargs
    /\ all_inits = << >>
    /\ conc = << >>
    /\ sane = << >>
    /\ succ = << >>
    /\ nfev = << >>
    /\ warnings = << >>
    /\ visits = << >>
    /\ varied = << >>
    /\ nfo = << >>
    /\ yvec = << >>
    /\ ret = << >>
    /\ raised = "none"

(***************************************************************************)
(* solve_equilibrium.                                                      *)
(***************************************************************************)
\* solve_equilibrium(c0, stoich, K) is called
SolveEquilibriumCall ==
    /\ op = "idle"
    /\ \E st \in StoichInputs, c \in ConcInputs :
          /\ stoich' = st
          /\ c0' = c
    /\ op' = "solve_equilibrium"
    /\ pc' = "get_rc_interval"
    /\ UNCHANGED << gridVars, tanhVars, interval, rc, eqsys, disVars, solveVars, condVars, ret, raised >>

\* _solve_equilibrium_coord: mask and get_rc_interval; its ValueError is not caught
SolveEquilibriumInterval ==
    /\ op = "solve_equilibrium" /\ pc = "get_rc_interval"
    /\ LET iv == get_rc_interval(stoich, c0, NonzeroMask(stoich))
       IN  /\ interval' = iv
           /\ IF iv.err # "none"
              THEN /\ raised' = iv.err
                   /\ pc' = "raised"
              ELSE /\ raised' = raised
                   /\ pc' = "brentq"
    /\ UNCHANGED << gridVars, tanhVars, op, c0, stoich, rc, eqsys, disVars, solveVars, condVars, ret >>

\* brentq on [lower, upper], then return c0 + rc*stoich
SolveEquilibriumReturn ==
    /\ op = "solve_equilibrium" /\ pc = "brentq"
    /\ \E r \in BrentqRoots(interval.lower, interval.upper) :
          /\ rc' = r
          /\ ret' = Advance(c0, r, stoich)
    /\ pc' = "returned"
    /\ UNCHANGED << gridVars, tanhVars, op, c0, stoich, interval, eqsys, disVars, solveVars, condVars, raised >>

(***************************************************************************)
(* EqSystem.dissolved, one reaction of its loop per step.                  *)
(***************************************************************************)
\* new_concs = concs with no copy made
CopyTargetAlias == "caller"

\* new_concs = concs.copy(): a fresh array
CopyTarget == "own"

\* the array new_concs names
NewConcs == IF new_ref = "own" THEN new_concs ELSE concs

DissolvedCall ==
    /\ op = "idle"
    /\ \E id \in SysIds :
          /\ eqsys' = id
          /\ \E v \in DissolvedInputs(Systems[id]) :
                /\ concs' = v
                /\ concs_in' = v
                /\ new_concs' = IF CopyTarget = "own" THEN v ELSE << >>
    /\ new_ref' = CopyTarget
    /\ rxn_i' = 0
    /\ op' = "dissolved"
    /\ pc' = "loop"
    /\ UNCHANGED << gridVars, tanhVars, seVars, solveVars, condVars, ret, raised >>

\* one reaction of "for r in self.rxns", the update done in place
DissolvedStep ==
    /\ op = "dissolved" /\ pc = "loop"
    /\ rxn_i < Nr(Systems[eqsys])
    /\ LET v == DissolveRxn(Systems[eqsys].rxns[rxn_i + 1], NewConcs)
       IN  IF new_ref = "own"
           THEN new_concs' = v /\ concs' = concs
           ELSE concs' = v /\ new_concs' = new_concs
    /\ rxn_i' = rxn_i + 1
    /\ UNCHANGED << gridVars, tanhVars, op, pc, eqsys, seVars, concs_in, new_ref, solveVars, condVars, ret, raised >>

\* return new_concs
DissolvedReturn ==
    /\ op = "dissolved" /\ pc = "loop"
    /\ rxn_i = Nr(Systems[eqsys])
    /\ ret' = NewConcs
    /\ pc' = "returned"
    /\ UNCHANGED << gridVars, tanhVars, op, eqsys, seVars, disVars, solveVars, condVars, raised >>

(***************************************************************************)
(* EqSystem._solve.  get_neqsys builds, for the policy, a chain of         *)
(* conditional systems, a conditional system of chains or a plain chain;   *)
(* neqsys.solve runs it.  A step is one evaluation of the conditions, one  *)
(* solve of one stage, or one advance of the chain.                        *)
(*                                                                         *)
(* ChainedNeqSys and ConditionalNeqSys are classes of pyneqsys.  A chain   *)
(* solves its systems in order, each from the solution of the one before.  *)
(* A conditional system evaluates the conditions on its x0 (the forward    *)
(* ones, no phase counting as present), solves under that combination and  *)
(* solves again while the conditions on the solution (backward for a       *)
(* present phase, forward for an absent one) give another combination,     *)
(* whatever the success flag; the repetitions are not bounded.             *)
(***************************************************************************)
Sys == Systems[eqsys]

Policy == NeqsysOf(kwargs)

Stages == NumSysOf(kwargs)

\* _solve(init_concs, **kwargs) is called; x0 is None, so x0 = init_concs
SolveCall(policies) ==
    /\ op = "idle"
    /\ \E id \in SysIds :
          /\ eqsys' = id
          /\ \E ic \in InitConcs(Systems[id]) :
                /\ init_concs' = ic
                /\ x' = ic
          /\ \E ns \in NumSysArgs, nq \in policies, pr \in PrecipitatesArgs(Systems[id]) :
                /\ kwargs' = [ NumSys |-> ns, neqsys |-> nq, precipitates |-> pr ]
                /\ IF NeqsysOf(kwargs') = "static_conditions"
                   THEN /\ conds' = StaticPrecipitates(Systems[id], kwargs', x')
                        /\ pc' = "neqsys_solve"
                   ELSE /\ conds' = AllAbsent(Systems[id])
                        /\ pc' = "cond_init"
    /\ stage' = 1
    /\ success' = FALSE
    /\ small_used' = << >>
    /\ ns_used' = "none"
    /\ changed' = FALSE
    /\ op' = "_solve"
    /\ UNCHANGED << gridVars, tanhVars, seVars, disVars, condVars, ret, raised >>

\* ConditionalNeqSys.solve begins: the conditions on the x0 it was given, no
\* phase counting as present before
ConditionalInit ==
    /\ op = "_solve" /\ pc = "cond_init"
    /\ LET small == BwSmall(Policy, Stages, stage)
           prev  == AllAbsent(Sys)
           err   == get_conds_err(Sys, x, prev)
       IN  /\ small_used' = small
           /\ IF err # "none"
              THEN /\ raised' = err
                   /\ pc' = "raised"
                   /\ conds' = conds
              ELSE /\ raised' = raised
                   /\ pc' = "neqsys_solve"
                   /\ conds' = get_conds(Sys, x, prev, small)
    /\ UNCHANGED << gridVars, tanhVars, op, eqsys, seVars, disVars, condVars, init_concs, kwargs, stage, x,
                    success, ns_used, changed, ret >>

\* the solve of one stage under the combination in force
NeqSysSolve ==
    /\ op = "_solve" /\ pc = "neqsys_solve"
    /\ \E o \in SolverOutputs(Sys, Stages[stage], init_concs) :
          /\ x' = o.x
          /\ success' = o.success
    /\ ns_used' = Stages[stage]
    /\ pc' = IF Policy = "chained_conditional" THEN "cond_check" ELSE "chain_next"
    /\ UNCHANGED << gridVars, tanhVars, op, eqsys, seVars, disVars, condVars, init_concs, kwargs, stage, conds,
                    small_used, changed, ret, raised >>

\* ConditionalNeqSys.solve after a solve: done if the conditions give the same
\* combination, else solve again under the new one
ConditionalCheck ==
    /\ op = "_solve" /\ pc = "cond_check"
    /\ LET small == BwSmall(Policy, Stages, stage)
           err   == get_conds_err(Sys, x, conds)
           new   == get_conds(Sys, x, conds, small)
       IN  /\ small_used' = small
           /\ IF err # "none"
              THEN /\ raised' = err
                   /\ pc' = "raised"
                   /\ UNCHANGED << gridVars, tanhVars, conds, stage, changed >>
              ELSE /\ raised' = raised
                   /\ IF new = conds
                      THEN /\ pc' = IF Policy = "chained_conditional"
                                    THEN "chain_next" ELSE "sanity"
                           /\ UNCHANGED << gridVars, tanhVars, conds, stage, changed >>
                      ELSE /\ conds' = new
                           /\ changed' = TRUE
                           /\ pc' = "neqsys_solve"
                           /\ stage' = IF Policy = "chained_conditional" THEN stage ELSE 1
    /\ UNCHANGED << gridVars, tanhVars, op, eqsys, seVars, disVars, condVars, init_concs, kwargs, x, success,
                    ns_used, ret >>

\* ChainedNeqSys.solve: the next system of the chain starts from this solution
ChainNext ==
    /\ op = "_solve" /\ pc = "chain_next"
    /\ IF stage < Len(Stages)
       THEN /\ stage' = stage + 1
            /\ pc' = IF Policy = "chained_conditional" THEN "cond_init" ELSE "neqsys_solve"
       ELSE /\ stage' = stage
            /\ pc' = IF Policy = "conditional_chained" THEN "cond_check" ELSE "sanity"
    /\ UNCHANGED << gridVars, tanhVars, op, eqsys, seVars, disVars, condVars, init_concs, kwargs, conds, x,
                    success, small_used, ns_used, changed, ret, raised >>

\* sane = self._result_is_sane(init_concs, x); return x, sol, sane
SolveReturn ==
    /\ op = "_solve" /\ pc = "sanity"
    /\ ret' = [ x |-> x, success |-> success, sane |-> result_is_sane(Sys, init_concs, x) ]
    /\ pc' = "returned"
    /\ UNCHANGED << gridVars, tanhVars, op, eqsys, seVars, disVars, solveVars, condVars, raised >>

\* the caller takes the result (or the error) and the system is idle again
Finish ==
    /\ op # "idle" /\ pc \in { "returned", "raised" }
    /\ op' = "idle"
    /\ pc' = "idle"
    /\ eqsys' = 0
    /\ SeIdle
    /\ DisIdle
    /\ SolveIdle
    /\ CondIdle
    /\ GridIdle
    /\ TanhIdle
    /\ ret' = << >>
    /\ raised' = "none"

(***************************************************************************)
(* EqSystem.solve(init_concs, varied, **kwargs) and                        *)
(* EqCalcResult(eqsys, init_concs, varied).solve, with keyword arguments.  *)
(***************************************************************************)
GridOrder == Product(Shape(varied))

\* EqCalcResult.__init__, then the call of its solve: conc is np.empty_like
\* (nothing written yet), every attribute is zero-filled
GridSolveCall ==
    /\ op = "idle"
    /\ \E id \in GridSysIds, v \in VariedArgs, kw \in GridKwargs,
          e \in { "EqSystem.solve", "EqCalcResult.solve" } :
          LET idxs == Range(Product(Shape(v)))
          IN  /\ eqsys' = id
              /\ entry' = e
              /\ varied' = v
              /\ solve_kwargs' = kw
              /\ all_inits' = [ ix \in idxs |-> per_substance_varied(GridBase, v, ix) ]
              /\ conc' = [ ix \in idxs |-> << >> ]
              /\ sane' = [ ix \in idxs |-> FALSE ]
              /\ succ' = [ ix \in idxs |-> FALSE ]
              /\ nfev' = [ ix \in idxs |-> 0 ]
              /\ warnings' = [ ix \in idxs |-> {} ]
    /\ point_kwargs' = NoKwargs
    /\ visits' = << >>
    /\ nfo' = << >>
    /\ op' = "solve"
    /\ pc' = "loop"
    /\ UNCHANGED << seVars, disVars, solveVars, condVars, tanhVars, ret, raised >>

\* one pass of the loop of EqCalcResult.solve: _solve at the next index, then
\* the stores into the slots of that index
GridStep ==
    /\ op = "solve" /\ pc = "loop"
    /\ Len(visits) < Len(GridOrder)
    /\ LET index == GridOrder[Len(visits) + 1]
           kw    == ForwardedKwargs(entry, solve_kwargs)
       IN  /\ point_kwargs' = kw
           /\ \E o \in SolveOutcomes(Systems[eqsys], all_inits[index], kw) :
                 IF o.err # "none"
                 THEN /\ raised' = o.err
                      /\ pc' = "raised"
                      /\ UNCHANGED << conc, sane, succ, nfev, warnings, visits, nfo >>
                 ELSE /\ conc' = [ conc EXCEPT ![index] = o.x ]
                      /\ sane' = [ sane EXCEPT ![index] = o.sane ]
                      /\ succ' = [ succ EXCEPT ![index] = o.nfo["success"] ]
                      /\ nfev' = IF "nfev" \in DOMAIN o.nfo
                                 THEN [ nfev EXCEPT ![index] = o.nfo["nfev"] ]
                                 ELSE nfev
                      /\ warnings' = [ warnings EXCEPT ![index] = o.warned ]
                      /\ visits' = Append(visits, index)
                      /\ nfo' = o.nfo
                      /\ UNCHANGED << pc, raised >>
    /\ UNCHANGED << op, eqsys, seVars, disVars, solveVars, condVars, tanhVars, entry,
                    solve_kwargs, all_inits, varied, ret >>

\* the loop is over: the results object is what the caller has
GridReturn ==
    /\ op = "solve" /\ pc = "loop"
    /\ Len(visits) = Len(GridOrder)
    /\ ret' = [ conc |-> conc, sane |-> sane, success |-> succ, nfev |-> nfev ]
    /\ pc' = "returned"
    /\ UNCHANGED << op, eqsys, seVars, disVars, solveVars, condVars, gridVars, tanhVars,
                    raised >>

(***************************************************************************)
(* The callbacks of _fw_cond_factory(ri) and _bw_cond_factory(ri, small),  *)
(* called on one vector.                                                   *)
(***************************************************************************)
PhaseCondsCall ==
    /\ op = "idle"
    /\ \E id \in SysIds :
          /\ eqsys' = id
          /\ \E ri \in phase_transfer_reaction_idxs(Systems[id]),
                NS \in { "Lin", "Log" },
                v \in XGrid(Systems[id], "Lin") :
                /\ cond_ri' = ri
                /\ cond_small' = Small(NS)
                /\ cond_x' = v
                /\ LET fw == fw_cond(Systems[id], ri, v)
                   IN  /\ ret' = [ fw |-> fw.val, bw |-> bw_cond(Systems[id], ri, Small(NS), v) ]
                       /\ raised' = fw.err
                       /\ pc' = IF fw.err = "none" THEN "returned" ELSE "raised"
    /\ op' = "phase_conds"
    /\ UNCHANGED << gridVars, tanhVars, seVars, disVars, solveVars >>

(***************************************************************************)
(* NumSysLinTanh.post_processor called on a solver-space vector; params    *)
(* begins with the initial concentrations.                                 *)
(***************************************************************************)
PostProcessorCall ==
    /\ op = "idle"
    /\ \E id \in SysIds :
          /\ eqsys' = id
          /\ \E ic \in InitConcs(Systems[id]), y \in YVecs(Systems[id]) :
                /\ init_concs' = ic
                /\ yvec' = y
                /\ ret' = post_processor(Systems[id], ic, y)
    /\ op' = "post_processor"
    /\ pc' = "returned"
    /\ UNCHANGED << seVars, disVars, condVars, gridVars, kwargs, stage, conds, x, success,
                    small_used, ns_used, changed, raised >>

\* the pure operations: solve_equilibrium, dissolved, the phase conditions
Next ==
    \/ SolveEquilibriumCall
    \/ SolveEquilibriumInterval
    \/ SolveEquilibriumReturn
    \/ DissolvedCall
    \/ DissolvedStep
    \/ DissolvedReturn
    \/ PhaseCondsCall
    \/ PostProcessorCall
    \/ Finish

Spec == Init /\ [][Next]_vars

\* _solve under the default policy, chained_conditional
NextChained ==
    \/ SolveCall({ "unset" })
    \/ ConditionalInit
    \/ NeqSysSolve
    \/ ConditionalCheck
    \/ ChainNext
    \/ SolveReturn
    \/ Finish

SpecChained == Init /\ [][NextChained]_vars

\* _solve under the policies conditional_chained and static_conditions
NextFixed ==
    \/ SolveCall({ "conditional_chained", "static_conditions" })
    \/ ConditionalInit
    \/ NeqSysSolve
    \/ ConditionalCheck
    \/ ChainNext
    \/ SolveReturn
    \/ Finish

SpecFixed == Init /\ [][NextFixed]_vars

\* _solve under conditional_chained
NextConditional ==
    \/ SolveCall({ "conditional_chained" })
    \/ ConditionalInit
    \/ NeqSysSolve
    \/ ConditionalCheck
    \/ ChainNext
    \/ SolveReturn
    \/ Finish

\* the positions of a solve in progress
SolvePositions == { "cond_init", "neqsys_solve", "cond_check", "chain_next", "sanity" }

\* a solve in progress moves on: the program is sequential and every step of
\* the solve, the library's solver included, comes back
SolveMovesOn ==
    /\ op = "_solve" /\ pc \in SolvePositions
    /\ pc' \in (SolvePositions \cup { "returned", "raised" }) \ { pc }

SpecConditionalFair == Init /\ [][NextConditional]_vars /\ WF_pc(SolveMovesOn)

\* the grid solves
NextGrid ==
    \/ GridSolveCall
    \/ GridStep
    \/ GridReturn
    \/ Finish

SpecGrid == Init /\ [][NextGrid]_vars

(***************************************************************************)
(* Claims about the single-reaction coordinate solver.                     *)
(***************************************************************************)
\* the ratios c0_i/stoich_i of the species with a nonzero coefficient
Ratios == { Frac(c0[i], stoich[i]) : i \in { j \in DOMAIN stoich : stoich[j] # 0 } }

NegRatios == { r \in Ratios : r[1] < 0 }

PosRatios == { r \in Ratios : r[1] > 0 }

IntervalKnown == op = "solve_equilibrium" /\ pc \in { "brentq", "returned" }

\* C2: the interval get_rc_interval returns has upper = -(the largest strictly
\* negative ratio c0_i/stoich_i), 0 if there is none, and lower = -(the
\* smallest strictly positive ratio), 0 if there is none.
C2_IntervalBounds ==
    IntervalKnown =>
        /\ IF NegRatios = {} THEN interval.upper = Zero
           ELSE /\ RNeg(interval.upper) \in NegRatios
                /\ \A r \in NegRatios : RLe(r, RNeg(interval.upper))
        /\ IF PosRatios = {} THEN interval.lower = Zero
           ELSE /\ RNeg(interval.lower) \in PosRatios
                /\ \A r \in PosRatios : RLe(RNeg(interval.lower), r)

\* two different negative ratios and a positive one: the maximum matters
C2_Witness ==
    /\ IntervalKnown
    /\ Cardinality(NegRatios) >= 2
    /\ interval.upper # Zero

\* C3: the interval is [0,0] exactly when there is neither a negative nor a
\* positive ratio; then, and only then, "0-interval" is raised, it reaches the
\* caller of solve_equilibrium and nothing (no unchanged c0) is returned.
C3_ZeroIntervalRaises ==
    op = "solve_equilibrium" /\ pc # "get_rc_interval" =>
        /\ (NegRatios = {} /\ PosRatios = {}) <=> (raised = "0-interval")
        /\ raised = "0-interval" => pc = "raised" /\ ret = << >>
        /\ raised = "none" =>
              /\ pc \in { "brentq", "returned" }
              /\ ~(interval.lower = Zero /\ interval.upper = Zero)

\* all concentrations zero: the interval collapses and the error is raised
C3_Witness ==
    /\ op = "solve_equilibrium" /\ pc = "raised"
    /\ raised = "0-interval"
    /\ NonzeroMask(stoich) # {}

(***************************************************************************)
(* Claims about the dissolved projection and the phase conditions.         *)
(***************************************************************************)
\* the sum over the first n reactions of (v[solid]/coefficient) * net[i], for the
\* reactions that have a precipitate
RECURSIVE ProjectionSum(_, _, _, _)
ProjectionSum(sys, v, i, n) ==
    IF n = 0 THEN Zero
    ELSE LET r == sys.rxns[n]
         IN  RAdd(ProjectionSum(sys, v, i, n - 1),
                  IF r.precip # 0
                  THEN RMul(RDiv(v[r.precip], R(r.net[r.precip])), R(r.net[i]))
                  ELSE Zero)

\* the fully dissolved projection, every term taken from the given vector
Projection(sys, v) == [ i \in DOMAIN v |-> RSub(v[i], ProjectionSum(sys, v, i, Nr(sys))) ]

\* every precipitation reaction of the system has a nonzero precipitate coefficient
NonzeroCoefficients(sys) ==
    \A ri \in phase_transfer_reaction_idxs(sys) : sys.rxns[ri].net[sys.rxns[ri].precip] # 0

\* the quotient of the dissolved species of reaction r at vector v
DissolvedQ(sys, r, v) ==
    equilibrium_quotient(Projection(sys, v), [ i \in 1..Ns(sys) |-> IF sys.solid[i] THEN 0 ELSE r.net[i] ])

\* the forward inequality of reaction r on the dissolved projection of v
ForwardHolds(sys, r, v) ==
    LET q == DissolvedQ(sys, r, v)
        s == r.net[r.precip]
    IN  IF s > 0 THEN RLt(RMul(q, OnePlusRtol), r.K) ELSE RGt(q, RMul(r.K, OnePlusRtol))

CondsReturned == op = "phase_conds" /\ pc = "returned"

CondRxn == Systems[eqsys].rxns[cond_ri]

\* C1 as stated: the forward and the backward condition of one reaction are
\* never both true for the same concentration vector.
C1_NeverBothTrue == CondsReturned => ~(ret.fw /\ ret.bw)

\* C1, amended: both conditions are true exactly when the precipitate's
\* concentration is at least small and the forward inequality holds on the
\* dissolved projection; so they are never both true for a vector whose
\* precipitate concentration is below small.
C1_BothTrueIffSolidAndForward ==
    CondsReturned =>
        /\ (ret.fw /\ ret.bw) <=>
              (/\ RLe(cond_small, cond_x[CondRxn.precip])
               /\ ForwardHolds(Systems[eqsys], CondRxn, cond_x))
        /\ RLt(cond_x[CondRxn.precip], cond_small) => ~(ret.fw /\ ret.bw)

\* the forward condition holds on a vector whose solid is below a positive small
C1_Witness ==
    /\ CondsReturned
    /\ ret.fw /\ ~ret.bw
    /\ RLt(Zero, cond_small)
    /\ cond_x[CondRxn.precip] = Zero

\* C4: the forward condition compares Q of the dissolved projection with K:
\* true exactly when Q*(1+rtol) < K for a precipitate coefficient s > 0, exactly
\* when Q > K*(1+rtol) for s < 0; for s = 0 it raises NotImplementedError.
C4_ForwardCondition ==
    op = "phase_conds" =>
        LET s == CondRxn.net[CondRxn.precip]
            q == DissolvedQ(Systems[eqsys], CondRxn, cond_x)
        IN  /\ s > 0 => /\ pc = "returned"
                        /\ ret.fw <=> RLt(RMul(q, OnePlusRtol), CondRxn.K)
            /\ s < 0 => /\ pc = "returned"
                        /\ ret.fw <=> RGt(q, RMul(CondRxn.K, OnePlusRtol))
            /\ s = 0 => pc = "raised" /\ raised = "NotImplementedError"

\* a vector whose solid is not zero and whose Q is above K but inside the
\* tolerance: the projection and the tolerance both decide the answer
C4_Witness ==
    /\ CondsReturned
    /\ CondRxn.net[CondRxn.precip] < 0
    /\ cond_x[CondRxn.precip] # Zero
    /\ RGt(DissolvedQ(Systems[eqsys], CondRxn, cond_x), CondRxn.K)
    /\ ~ret.fw

DissolvedReturned == op = "dissolved" /\ pc = "returned"

SolveReturned == op = "_solve" /\ pc = "returned"

NegativeConc(v) == \E i \in DOMAIN v : RLt(v[i], Zero)

\* some concentration is above total/coeff * (1 + tolerance) for one of the
\* components of its substance, hence above the least of them
ExceedsBound(sys, init, v) ==
    \E i \in 1..Ns(sys) : \E k \in Components(sys, i) :
        RGt(v[i], RMul(RDiv(composition_conc(sys, init, k), R(sys.comp[i][k])),
                       OnePlusSaneTol))

C7_SaneImpliesConserved ==
    SolveReturned /\ ret.sane => Conserved(Sys, ret.x, init_concs)

\* C7, amended: in a result that the sanity check accepts no concentration is
\* negative and no substance alone holds more of a component than
\* (1 + tolerance) times the initial total of that component.
C7_SaneImpliesWithinTotals ==
    SolveReturned /\ ret.sane =>
        \A i \in 1..Ns(Sys) :
            /\ RLe(Zero, ret.x[i])
            /\ \A k \in Components(Sys, i) :
                  RLe(RMul(R(Sys.comp[i][k]), ret.x[i]),
                      RMul(composition_conc(Sys, init_concs, k), OnePlusSaneTol))

\* an accepted result whose balances differ from the initial ones
C7_Witness ==
    /\ SolveReturned
    /\ ret.sane
    /\ ~Conserved(Sys, ret.x, init_concs)
    /\ \E i \in DOMAIN x : RLt(Zero, ret.x[i])

(***************************************************************************)
(* Claims about the policies.                                              *)
(***************************************************************************)
Solids == phase_transfer_reaction_idxs(Sys)

\* the combination the conditions give on x when none was in force
ForwardCombination == [ ri \in Solids |-> ForwardHolds(Sys, Sys.rxns[ri], x) ]

\* the combination the conditions give on x under the combination in force,
\* with the given threshold
NextCombination(small) ==
    [ ri \in Solids |->
        IF conds[ri] THEN RLe(small, x[Sys.rxns[ri].precip])
        ELSE ForwardHolds(Sys, Sys.rxns[ri], x) ]

C8_Step ==
    /\ op = "idle" /\ op' = "_solve" =>
          /\ stage' = 1 /\ pc' = "cond_init" /\ x' = init_concs'
          /\ kwargs'.NumSys = << >> => NumSysOf(kwargs') = << "Log", "Lin" >>
    /\ op = "_solve" /\ op' = "_solve" =>
          /\ stage' \in { stage, stage + 1 }
          /\ pc = "cond_init" /\ pc' # "raised" =>
                /\ pc' = "neqsys_solve" /\ x' = x /\ stage' = stage
                /\ small_used' = Small(Stages[stage])
                /\ conds' = ForwardCombination
          /\ pc = "neqsys_solve" =>
                /\ pc' = "cond_check" /\ ns_used' = Stages[stage]
                /\ stage' = stage /\ conds' = conds
          /\ pc = "cond_check" /\ pc' # "raised" =>
                /\ x' = x /\ stage' = stage
                /\ small_used' = Small(Stages[stage])
                /\ conds' = NextCombination(Small(Stages[stage]))
                /\ pc' = IF conds' = conds THEN "chain_next" ELSE "neqsys_solve"
          /\ stage' = stage + 1 =>
                /\ pc = "chain_next" /\ pc' = "cond_init"
                /\ stage < Len(Stages) /\ x' = x
          /\ pc' = "sanity" => pc = "chain_next" /\ stage = Len(Stages) /\ x' = x

SuppliedCombination ==
    IF kwargs.precipitates.given THEN kwargs.precipitates.val ELSE AllAbsent(Sys)

\* C9 as stated: under conditional_chained the combination in force is the one
\* the caller supplied, or all absent, throughout the solve.
C9_ConditionalChainedFixed ==
    op = "_solve" /\ Policy = "conditional_chained" /\ pc # "cond_init" =>
        conds = SuppliedCombination /\ ~changed

C9_Step ==
    op = "_solve" /\ op' = "_solve" /\ Policy = "conditional_chained" /\ conds' # conds =>
        /\ pc \in { "cond_init", "cond_check" }
        /\ stage' = 1
        /\ pc = "cond_init" => conds' = ForwardCombination
        /\ pc = "cond_check" => stage = Len(Stages) /\ conds' = NextCombination(Small(Stages[1]))

\* C9, amended: it is under static_conditions that one combination, the
\* caller's or all absent, is in force for the whole chain; under
\* conditional_chained the combination is the one the forward conditions give
\* on x0, it is fixed during a run of the full chain and is evaluated again
\* after each run, the chain being run again from stage 1 when it changed.
C9_StaticFixedConditionalPerRun ==
    /\ [](op = "_solve" /\ Policy = "static_conditions" =>
             conds = SuppliedCombination /\ ~changed)
    /\ [][C9_Step]_vars

\* a static solve with a solid the caller declared present, at its end
C9_Witness ==
    /\ SolveReturned
    /\ Policy = "static_conditions"
    /\ stage = Len(Stages)
    /\ kwargs.precipitates.given
    /\ \E ri \in Solids : conds[ri] /\ ~ForwardCombination[ri]

LexLess(a, b) ==
    \E k \in DOMAIN a : a[k] < b[k] /\ \A m \in 1..(k - 1) : a[m] = b[m]

GridIndices == DOMAIN all_inits

\* the slots of every index other than i are what they were
OtherSlotsUnchanged(i) ==
    \A j \in GridIndices \ { i } :
        /\ conc'[j] = conc[j] /\ sane'[j] = sane[j]
        /\ succ'[j] = succ[j] /\ nfev'[j] = nfev[j]

C11_Step ==
    /\ op = "solve" /\ op' = "solve" /\ visits' # visits =>
          LET i == visits'[Len(visits')]
          IN  /\ visits' = Append(visits, i)
              /\ i \in GridIndices
              /\ Cardinality({ j \in GridIndices : LexLess(j, i) }) = Len(visits)
              /\ OtherSlotsUnchanged(i)
              /\ all_inits' = all_inits
              /\ conc'[i] # << >>
              /\ sane'[i] <=> ~(\/ NegativeConc(conc'[i])
                                \/ ExceedsBound(Systems[eqsys], all_inits[i], conc'[i]))
    /\ op = "solve" /\ op' = "solve" /\ visits' = visits =>
          /\ conc' = conc /\ sane' = sane /\ succ' = succ /\ nfev' = nfev
          /\ pc' = "returned" =>
                /\ Len(visits) = Cardinality(GridIndices)
                /\ { visits[n] : n \in DOMAIN visits } = GridIndices

\* C11: the grid solve visits every grid index exactly once, in lexicographic
\* order; the step for index i solves from all_inits[i], writes the slots of i
\* and leaves the slots of every other index as they were.
C11_GridOrderAndFrame == [][C11_Step]_vars

\* a grid of two axes solved to the end: the second index visited differs from
\* the first in the last axis, and two points got different concentrations
C11_Witness ==
    /\ op = "solve" /\ pc = "returned"
    /\ Len(varied) = 2
    /\ visits[1] = << 1, 1 >> /\ visits[2] = << 1, 2 >>
    /\ conc[visits[1]] # conc[visits[2]]
    /\ sane[visits[1]] # sane[visits[2]]

C12_Step ==
    op = "solve" /\ op' = "solve" /\ visits' # visits =>
        LET i == visits'[Len(visits')]
        IN  /\ succ'[i] = nfo'["success"]
            /\ ~nfo'["success"] =>
                  /\ pc' = "loop" /\ raised' = "none"
                  /\ "Root-finding indicated as failed by solver." \in warnings'[i]
                  /\ sane'[i] <=> ~(\/ NegativeConc(conc'[i])
                                    \/ ExceedsBound(Systems[eqsys], all_inits[i], conc'[i]))
            /\ nfev'[i] = IF "nfev" \in DOMAIN nfo' THEN nfo'["nfev"] ELSE 0

\* C12: a grid point whose solve is reported as failed gets success = false and
\* its computed sane flag, with a warning and no error; the loop goes on and
\* returns only when every index has been solved; a diagnostic the solver did
\* not report stays at its zero default.
C12_FailureDoesNotAbort ==
    /\ [][C12_Step]_vars
    /\ [](op = "solve" /\ pc = "raised" => raised = "NotImplementedError")
    /\ [](op = "solve" /\ pc = "returned" =>
             { visits[n] : n \in DOMAIN visits } = GridIndices)

\* a grid solved to the end whose first point failed, sane, with no nfev
\* reported, and whose last point succeeded
C12_Witness ==
    /\ op = "solve" /\ pc = "returned"
    /\ Len(visits) > 2
    /\ ~succ[visits[1]] /\ sane[visits[1]] /\ nfev[visits[1]] = 0
    /\ succ[visits[Len(visits)]] /\ nfev[visits[Len(visits)]] # 0

(***************************************************************************)
(* Claims about the Tanh-bounded strategy.                                 *)
(***************************************************************************)
PostProcessed == op = "post_processor" /\ pc = "returned"

Ymax == upper_conc_bounds(Systems[eqsys], init_concs)

\* C13 as stated: for every substance with ymax > 0 the post-processed
\* concentration lies in [0, ymax].
C13_WithinPhysicalBounds ==
    PostProcessed =>
        \A i \in DOMAIN ret :
            RLt(Zero, Ymax[i]) => RLe(Zero, ret[i]) /\ RLe(ret[i], Ymax[i])

\* C13, amended: for every substance with ymax > 0 the post-processed
\* concentration lies in [-ymax/8, 9*ymax/8]; it lies in [0, ymax] exactly when
\* |tanh(y)| <= 4/5.
C13_WithinWidenedBounds ==
    PostProcessed =>
        \A i \in DOMAIN ret :
            RLt(Zero, Ymax[i]) =>
                /\ RLe(RDiv(RNeg(Ymax[i]), R(8)), ret[i])
                /\ RLe(ret[i], RDiv(RMul(R(9), Ymax[i]), R(8)))
                /\ (RLe(Zero, ret[i]) /\ RLe(ret[i], Ymax[i])) <=>
                      (/\ RLe(Frac(-4, 5), Tanh(yvec[i]))
                       /\ RLe(Tanh(yvec[i]), Frac(4, 5)))

\* one substance above its bound, one below zero, one inside
C13_Witness ==
    /\ PostProcessed
    /\ \A i \in DOMAIN ret : RLt(Zero, Ymax[i])
    /\ \E i \in DOMAIN ret : RGt(ret[i], Ymax[i])
    /\ \E i \in DOMAIN ret : RLt(ret[i], Zero)
    /\ \E i \in DOMAIN ret : RLe(Zero, ret[i]) /\ RLe(ret[i], Ymax[i]) /\ yvec[i] # 0

(***************************************************************************)
(* Claims about the feasibility of the reaction-coordinate interval and    *)
(* about the keyword arguments of the grid solve.                          *)
(***************************************************************************)
NonNegative(v) == \A i \in DOMAIN v : RLe(Zero, v[i])

\* C14 as stated: for nonnegative c0, the concentrations c0 + rc*stoich are
\* nonnegative at every rc of the interval get_rc_interval returned (so at its
\* two ends), species with c0 = 0 included, and solve_equilibrium returns no
\* negative concentration.
C14_IntervalFeasible ==
    IntervalKnown =>
        /\ NonNegative(Advance(c0, interval.lower, stoich))
        /\ NonNegative(Advance(c0, interval.upper, stoich))
        /\ pc = "returned" => NonNegative(ret)

\* C15 as stated: every per-point call of _solve gets the keyword arguments
\* that were given to the grid solve.
C15_KwargsReachEveryPoint ==
    op = "solve" /\ visits # << >> => point_kwargs = solve_kwargs

=============================================================================
